---- MODULE Spec2Model ----
(***************************************************************************)
(* Wire codec of the Cerberus messages of manticore: the byte-slice        *)
(* reader, RawError / Ack / Error<E>, the Challenge and FirmwareVersion    *)
(* requests and responses, and the to-be-signed view of the challenge      *)
(* response.  A run takes one message value or one byte string, encodes    *)
(* and decodes it with the codec, and records every intermediate result.   *)
(***************************************************************************)
EXTENDS Integers, Sequences, FiniteSets, TLC

(***************************************************************************)
(* Bounds of the enumerated inputs.                                        *)
(***************************************************************************)
\* bytes 0..MaxSmallByte and 0xFF are tried for codes and sub-codes
MaxSmallByte == 5
\* short pmr0 / signature lengths 0..MaxShortLen
MaxShortLen == 2
\* pmr0 lengths 255..255+MaxOverLen: around the width of the length field
MaxOverLen == 1
\* trailing bytes appended after a message: 0..MaxTrail
MaxTrail == 1
\* address of the first input byte: 0..MaxAddr
MaxAddr == 1
\* capacity of the arena handed to the decoders
ArenaSize == 64
\* detail carried by a capability failure: 0..MaxDetail
MaxDetail == 2
\* sizes asked of read_bytes and read_direct: 0..MaxReadLen
MaxReadLen == 4
\* capacities of the arena handed to read_direct: 0..MaxReadArena
MaxReadArena == 4
\* requests the server is followed through
MaxRequests == 3
\* arena allocations a request is followed through
MaxAllocs == 2
\* ports the host may be bound to: 0..MaxPort
MaxPort == 1
\* reads of the child's closed stdout that spawn is followed through
MaxEofReads == 2

(***************************************************************************)
(* Program constants.                                                      *)
(***************************************************************************)
\* number of values of a u8
U8Count == 256
\* length of a nonce and of a firmware version
NonceLen == 32

ByteSamples == (0..MaxSmallByte) \cup {U8Count - 1}

Fill(n, b) == [i \in 1..n |-> b]
Ramp(n, s) == [i \in 1..n |-> (s + i) % U8Count]

RECURSIVE Concat(_)
Concat(ss) == IF ss = <<>> THEN <<>> ELSE Head(ss) \o Concat(Tail(ss))

(***************************************************************************)
(* io::Read for &[u8] and &mut [u8]: the reader is the unread bytes and    *)
(* the address of the first of them.                                       *)
(***************************************************************************)
Reader(bytes, a) == [data |-> bytes, addr |-> a]

remaining_data(r) == Len(r.data)

Advance(r, n) ==
    [data |-> SubSeq(r.data, n + 1, Len(r.data)), addr |-> r.addr + n]

\* read_bytes without the length check: the bytes past the end read as 0
read_bytes_Overrun(r, n) ==
    IF Len(r.data) < n
    THEN [ok |-> TRUE, err |-> "", bytes |-> r.data \o Fill(n - Len(r.data), 0),
          r |-> Advance(r, Len(r.data))]
    ELSE [ok |-> TRUE, err |-> "", bytes |-> SubSeq(r.data, 1, n),
          r |-> Advance(r, n)]

\* read_bytes that refuses to take the last bytes of the input
read_bytes_Strict(r, n) ==
    IF Len(r.data) <= n
    THEN [ok |-> FALSE, err |-> "BufferExhausted", bytes |-> <<>>, r |-> r]
    ELSE [ok |-> TRUE, err |-> "", bytes |-> SubSeq(r.data, 1, n),
          r |-> Advance(r, n)]

read_bytes(r, n) ==
    IF Len(r.data) < n
    THEN [ok |-> FALSE, err |-> "BufferExhausted", bytes |-> <<>>, r |-> r]
    ELSE [ok |-> TRUE, err |-> "", bytes |-> SubSeq(r.data, 1, n),
          r |-> Advance(r, n)]

\* little-endian value of a byte string
RECURSIVE LeValue(_)
LeValue(bs) ==
    IF bs = <<>> THEN 0 ELSE Head(bs) + U8Count * LeValue(Tail(bs))

\* little-endian bytes, w of them, of an integer
RECURSIVE LeBytes(_, _)
LeBytes(v, w) ==
    IF w = 0 THEN <<>> ELSE <<v % U8Count>> \o LeBytes(v \div U8Count, w - 1)

IntOf(b) ==
    [ok |-> b.ok, err |-> b.err, r |-> b.r,
     val |-> IF b.ok THEN LeValue(b.bytes) ELSE 0]

read_le(r, w) == IntOf(read_bytes(r, w))

(***************************************************************************)
(* mem::Arena as a bump allocator: size bytes, cursor of them handed out.  *)
(***************************************************************************)
NewArena(n) == [size |-> n, cursor |-> 0]

misalign_of(addr, align) == addr % align

AlignUp(n, align) == n + ((align - misalign_of(n, align)) % align)

AllocAt(a, start, size) ==
    IF start + size > a.size
    THEN [ok |-> FALSE, a |-> a]
    ELSE [ok |-> TRUE, a |-> [a EXCEPT !.cursor = start + size]]

alloc_raw(a, size, align) == AllocAt(a, AlignUp(a.cursor, align), size)

(***************************************************************************)
(* ReadZero::read_direct for byte slices.                                  *)
(***************************************************************************)
\* the copy into the arena: alloc_raw(layout), then read_bytes(out)
CopyInto(r, a, out, b) ==
    IF ~out.ok
    THEN [ok |-> FALSE, err |-> "BufferExhausted", bytes |-> <<>>,
          r |-> r, a |-> a, direct |-> FALSE]
    ELSE [ok |-> b.ok, err |-> b.err, bytes |-> b.bytes,
          r |-> b.r, a |-> out.a, direct |-> FALSE]

\* ReadZero::read_direct as the trait provides it: always a copy
ReadZero_read_direct(r, a, size, align) ==
    CopyInto(r, a, alloc_raw(a, size, align), read_bytes(r, size))

\* read_direct that hands out the sub-slice without consuming it
read_direct_NoAdvance(r, a, size, align) ==
    IF Len(r.data) < size
    THEN [ok |-> FALSE, err |-> "BufferExhausted", bytes |-> <<>>,
          r |-> r, a |-> a, direct |-> FALSE]
    ELSE IF misalign_of(r.addr, align) = 0
    THEN [ok |-> TRUE, err |-> "", bytes |-> SubSeq(r.data, 1, size),
          r |-> r, a |-> a, direct |-> TRUE]
    ELSE CopyInto(r, a, alloc_raw(a, size, align), read_bytes(r, size))

\* read_direct that never looks at the alignment of the input
read_direct_Unaligned(r, a, size, align) ==
    IF Len(r.data) < size
    THEN [ok |-> FALSE, err |-> "BufferExhausted", bytes |-> <<>>,
          r |-> r, a |-> a, direct |-> FALSE]
    ELSE [ok |-> TRUE, err |-> "", bytes |-> SubSeq(r.data, 1, size),
          r |-> Advance(r, size), a |-> a, direct |-> TRUE]

read_direct(r, a, size, align) ==
    IF Len(r.data) < size
    THEN [ok |-> FALSE, err |-> "BufferExhausted", bytes |-> <<>>,
          r |-> r, a |-> a, direct |-> FALSE]
    ELSE IF misalign_of(r.addr, align) = 0
    THEN [ok |-> TRUE, err |-> "", bytes |-> SubSeq(r.data, 1, size),
          r |-> Advance(r, size), a |-> a, direct |-> TRUE]
    ELSE CopyInto(r, a, alloc_raw(a, size, align), read_bytes(r, size))

\* read_object::<[u8; 32]> and read_slice::<u8>: byte layouts, alignment 1
read_object(r, a, size) == read_direct(r, a, size, 1)
read_slice(r, n, a) == read_direct(r, a, n, 1)

(***************************************************************************)
(* io::Write into a growable sink.                                         *)
(***************************************************************************)
write_bytes(w, bytes) == w \o bytes
write_le(w, v, width) == write_bytes(w, LeBytes(v, width))

\* results of from_wire and to_wire
DecOk(v, r, a) == [ok |-> TRUE, err |-> "", val |-> v, r |-> r, a |-> a]
DecErr(e, r, a) == [ok |-> FALSE, err |-> e, val |-> "none", r |-> r, a |-> a]
EncOk(w) == [res |-> "Ok", bytes |-> w]
EncErr(e, w) == [res |-> e, bytes |-> w]

(***************************************************************************)
(* A from_wire body is a sequence of reads, each followed by `?`: st is    *)
(* the reader, the arena and the values read so far, or the first error.   *)
(***************************************************************************)
Start(r, a) == [ok |-> TRUE, err |-> "", r |-> r, a |-> a, out |-> <<>>]

Got(st, ok, err, r, a, v) ==
    IF ok
    THEN [ok |-> TRUE, err |-> "", r |-> r, a |-> a, out |-> Append(st.out, v)]
    ELSE [ok |-> FALSE, err |-> err, r |-> r, a |-> a, out |-> st.out]

GotInt(st, x) == Got(st, x.ok, x.err, x.r, st.a, x.val)
GotBytes(st, x) == Got(st, x.ok, x.err, x.r, st.a, x.bytes)
GotDirect(st, x) == Got(st, x.ok, x.err, x.r, x.a, x.bytes)
GotAlloc(st, x) == Got(st, x.ok, "OutOfMemory", st.r, x.a, <<>>)

\* r.read_le::<uW>()?
ThenReadLe(st, w) == IF st.ok THEN GotInt(st, read_le(st.r, w)) ELSE st
\* r.read_bytes(&mut [0; n])?
ThenReadBytes(st, n) == IF st.ok THEN GotBytes(st, read_bytes(st.r, n)) ELSE st
\* r.read_object::<[u8; n]>(arena)?
ThenReadObject(st, n) ==
    IF st.ok THEN GotDirect(st, read_object(st.r, st.a, n)) ELSE st
\* r.read_slice::<u8>(n, arena)?, n being the value read last
ThenReadSliceOfLast(st) ==
    IF st.ok THEN GotDirect(st, read_slice(st.r, st.out[Len(st.out)], st.a))
    ELSE st
\* r.read_slice::<u8>(r.remaining_data(), arena)?
ThenReadSliceOfRest(st) ==
    IF st.ok THEN GotDirect(st, read_slice(st.r, remaining_data(st.r), st.a))
    ELSE st
\* arena.alloc::<[u8; n]>()?
ThenAlloc(st, n) == IF st.ok THEN GotAlloc(st, alloc_raw(st.a, n, 1)) ELSE st

(***************************************************************************)
(* protocol::error                                                         *)
(***************************************************************************)
Raw(c, d) == [code |-> c, data |-> d]
NoRaw == Raw(0, <<>>)

\* RawError::from_wire reading the payload before the code
RawError_swapped_of(st) ==
    IF st.ok THEN DecOk(Raw(st.out[2], st.out[1]), st.r, st.a)
    ELSE DecErr(st.err, st.r, st.a)

RawError_from_wire_Swapped(r, a) ==
    RawError_swapped_of(ThenReadLe(ThenReadBytes(Start(r, a), 4), 1))

RawError_of(st) ==
    IF st.ok THEN DecOk(Raw(st.out[1], st.out[2]), st.r, st.a)
    ELSE DecErr(st.err, st.r, st.a)

RawError_from_wire(r, a) ==
    RawError_of(ThenReadBytes(ThenReadLe(Start(r, a), 1), 4))

\* RawError::to_wire writing only three of the four payload bytes
RawError_to_wire_Short(raw, w) ==
    EncOk(write_bytes(write_le(w, raw.code, 1), SubSeq(raw.data, 1, 3)))

RawError_to_wire(raw, w) ==
    EncOk(write_bytes(write_le(w, raw.code, 1), raw.data))

\* Ack
AckValue == [tag |-> "Ack"]

Ack_into_raw == Raw(0, <<0, 0, 0, 0>>)

\* TryFrom<RawError> for Ack that looks at the code only
Ack_try_from_CodeOnly(raw) ==
    IF raw.code = 0
    THEN [ok |-> TRUE, err |-> ""]
    ELSE [ok |-> FALSE, err |-> "OutOfRange"]

Ack_try_from(raw) ==
    IF raw.code = 0 /\ raw.data = <<0, 0, 0, 0>>
    THEN [ok |-> TRUE, err |-> ""]
    ELSE [ok |-> FALSE, err |-> "OutOfRange"]

Ack_of(raw, t) ==
    IF t.ok THEN DecOk(AckValue, raw.r, raw.a)
    ELSE DecErr(t.err, raw.r, raw.a)

Ack_try_into(raw) ==
    IF ~raw.ok THEN raw ELSE Ack_of(raw, Ack_try_from(raw.val))

Ack_from_wire(r, a) == Ack_try_into(RawError_from_wire(r, a))

Ack_to_wire(w) == RawError_to_wire(Ack_into_raw, w)

\* the specific errors of a command: E is the name of the error type
SpecificTypes == {"ChallengeError", "NoSpecificError"}

SpecificValues(E) == IF E = "ChallengeError" THEN {"UnknownChain"} ELSE {}

\* from_raw with a catch-all arm that yields the last variant
from_raw_CatchAll(E, code) ==
    IF E = "ChallengeError"
    THEN [ok |-> TRUE, val |-> "UnknownChain"]
    ELSE [ok |-> FALSE, val |-> ""]

from_raw(E, code) ==
    IF E = "ChallengeError" /\ code = 0
    THEN [ok |-> TRUE, val |-> "UnknownChain"]
    ELSE [ok |-> FALSE, val |-> ""]

\* to_raw that cannot represent the error as a byte
to_raw_Fails(E, e) == [ok |-> FALSE, val |-> 0]

to_raw(E, e) ==
    CASE E = "ChallengeError" /\ e = "UnknownChain" -> [ok |-> TRUE, val |-> 0]

\* Error<E>
Generic(t) == [tag |-> t, e |-> "", data |-> <<>>, raw |-> NoRaw]
Specific(e) == [tag |-> "Specific", e |-> e, data |-> <<>>, raw |-> NoRaw]
Unspecified(d) == [tag |-> "Unspecified", e |-> "", data |-> d, raw |-> NoRaw]
Unknown(raw) == [tag |-> "Unknown", e |-> "", data |-> <<>>, raw |-> raw]

\* the failures of the arena, the crypto capabilities and the session that
\* `?` turns into a protocol error
FailureSources == {"OutOfMemory", "csrng", "hash", "sig", "session"}

\* a conversion that keeps the detail of the failure in the payload
Error_from_Leaky(source, detail) ==
    IF source = "OutOfMemory" THEN Generic("ResourceLimit")
    ELSE Unspecified(<<4, detail, 0, 0>>)

\* From<OutOfMemory>, From<csrng::Error>, From<hash::Error>,
\* From<sig::Error>, From<session::Error> for Error<E>
Error_from(source, detail) ==
    IF source = "OutOfMemory" THEN Generic("ResourceLimit")
    ELSE Generic("Internal")

\* Ok(Self::Specific(E::from_raw(code)?))
SpecificOf(s) ==
    IF s.ok THEN [ok |-> TRUE, val |-> Specific(s.val)]
    ELSE [ok |-> FALSE, val |-> "none"]

\* the match of Error::from_wire on a decoded raw error
Error_match(E, code, data) ==
    IF code = 3 /\ data = <<0, 0, 0, 0>>
    THEN [ok |-> TRUE, val |-> Generic("Busy")]
    ELSE IF code = 4 /\ SubSeq(data, 2, 4) = <<0, 0, 0>>
    THEN CASE data[1] = 1 -> [ok |-> TRUE, val |-> Generic("ResourceLimit")]
           [] data[1] = 2 -> [ok |-> TRUE, val |-> Generic("Malformed")]
           [] data[1] = 3 -> [ok |-> TRUE, val |-> Generic("OutOfRange")]
           [] data[1] = 4 -> [ok |-> TRUE, val |-> Generic("Internal")]
           [] OTHER -> [ok |-> FALSE, val |-> "none"]
    ELSE IF code = 4 /\ data[1] = 255 /\ SubSeq(data, 3, 4) = <<0, 0>>
    THEN SpecificOf(from_raw(E, data[2]))
    ELSE IF code = 4
    THEN [ok |-> TRUE, val |-> Unspecified(data)]
    ELSE [ok |-> TRUE, val |-> Unknown(Raw(code, data))]

Error_of(error, m) ==
    IF m.ok THEN DecOk(m.val, error.r, error.a)
    ELSE DecErr("OutOfRange", error.r, error.a)

Error_try_match(E, error) ==
    IF ~error.ok THEN error
    ELSE Error_of(error, Error_match(E, error.val.code, error.val.data))

Error_from_wire(E, r, a) == Error_try_match(E, RawError_from_wire(r, a))

Specific_to_wire(c, w) ==
    IF ~c.ok THEN EncErr("OutOfRange", w)
    ELSE RawError_to_wire(Raw(4, <<255, c.val, 0, 0>>), w)

Error_to_wire(E, self, w) ==
    CASE self.tag = "Busy" -> RawError_to_wire(Raw(3, <<0, 0, 0, 0>>), w)
      [] self.tag = "ResourceLimit" ->
            RawError_to_wire(Raw(4, <<1, 0, 0, 0>>), w)
      [] self.tag = "Malformed" ->
            RawError_to_wire(Raw(4, <<2, 0, 0, 0>>), w)
      [] self.tag = "OutOfRange" ->
            RawError_to_wire(Raw(4, <<3, 0, 0, 0>>), w)
      [] self.tag = "Internal" ->
            RawError_to_wire(Raw(4, <<4, 0, 0, 0>>), w)
      [] self.tag = "Specific" -> Specific_to_wire(to_raw(E, self.e), w)
      [] self.tag = "Unspecified" -> RawError_to_wire(Raw(4, self.data), w)
      [] self.tag = "Unknown" -> RawError_to_wire(self.raw, w)

(***************************************************************************)
(* protocol::cerberus::challenge                                           *)
(***************************************************************************)
ChallengeRequest(slot, nonce) == [slot |-> slot, nonce |-> nonce]

\* Request::from_wire that leaves the reserved byte unread
ChallengeRequest_skipping_of(st) ==
    IF st.ok THEN DecOk(ChallengeRequest(st.out[1], st.out[2]), st.r, st.a)
    ELSE DecErr(st.err, st.r, st.a)

ChallengeRequest_from_wire_NoReserved(r, arena) ==
    ChallengeRequest_skipping_of(
        ThenReadObject(ThenReadLe(Start(r, arena), 1), NonceLen))

ChallengeRequest_of(st) ==
    IF st.ok THEN DecOk(ChallengeRequest(st.out[1], st.out[3]), st.r, st.a)
    ELSE DecErr(st.err, st.r, st.a)

ChallengeRequest_from_wire(r, arena) ==
    ChallengeRequest_of(
        ThenReadObject(ThenReadLe(ThenReadLe(Start(r, arena), 1), 1), NonceLen))

\* Request::to_wire without the reserved byte
ChallengeRequest_to_wire_NoReserved(self, w) ==
    EncOk(write_bytes(write_le(w, self.slot, 1), self.nonce))

ChallengeRequest_to_wire(self, w) ==
    EncOk(write_bytes(write_le(write_le(w, self.slot, 1), 0, 1), self.nonce))

ChallengeResponseTbs(slot, slot_mask, min, max, nonce, components, pmr0) ==
    [slot |-> slot, slot_mask |-> slot_mask, protocol_range |-> <<min, max>>,
     nonce |-> nonce, pmr0_components |-> components, pmr0 |-> pmr0]

\* the four spans handed to the callback of as_iovec_with
as_iovec_with(self) ==
    << <<self.slot, self.slot_mask, self.protocol_range[1],
         self.protocol_range[2], 0, 0>>,
       self.nonce,
       <<self.pmr0_components, Len(self.pmr0) % U8Count>>,
       self.pmr0 >>

ChallengeResponseTbs_of(st) ==
    IF st.ok
    THEN DecOk(ChallengeResponseTbs(st.out[1], st.out[2], st.out[3], st.out[4],
                                    st.out[6], st.out[7], st.out[9]),
               st.r, st.a)
    ELSE DecErr(st.err, st.r, st.a)

\* slot, slot_mask, min_version, max_version, the reserved u16
TbsHeader(st) ==
    ThenReadLe(ThenReadLe(ThenReadLe(ThenReadLe(ThenReadLe(st, 1), 1), 1), 1), 2)

\* nonce, pmr0_components, pmr0_len, pmr0
TbsBody(st) ==
    ThenReadSliceOfLast(ThenReadLe(ThenReadLe(ThenReadObject(st, NonceLen), 1), 1))

ChallengeResponseTbs_from_wire(r, arena) ==
    ChallengeResponseTbs_of(TbsBody(TbsHeader(Start(r, arena))))

\* the writes of to_wire that cannot fail
TbsFixed(self, w) ==
    write_le(
        write_bytes(
            write_le(
                write_le(
                    write_le(
                        write_le(write_le(w, self.slot, 1), self.slot_mask, 1),
                        self.protocol_range[1], 1),
                    self.protocol_range[2], 1),
                0, 2),
            self.nonce),
        self.pmr0_components, 1)

\* the length as a u8 (try_into), then the pmr0 bytes
TbsPmr0(self, w) ==
    IF Len(self.pmr0) > U8Count - 1
    THEN EncErr("OutOfRange", w)
    ELSE EncOk(write_bytes(write_le(w, Len(self.pmr0), 1), self.pmr0))

ChallengeResponseTbs_to_wire(self, w) == TbsPmr0(self, TbsFixed(self, w))

ChallengeResponse(tbs, signature) == [tbs |-> tbs, signature |-> signature]

ChallengeResponse_of(tbs, st) ==
    IF ~tbs.ok THEN tbs
    ELSE IF st.ok THEN DecOk(ChallengeResponse(tbs.val, st.out[1]), st.r, st.a)
    ELSE DecErr(st.err, st.r, st.a)

ChallengeResponse_signature(tbs) ==
    ChallengeResponse_of(tbs, ThenReadSliceOfRest(Start(tbs.r, tbs.a)))

ChallengeResponse_from_wire(r, arena) ==
    ChallengeResponse_signature(ChallengeResponseTbs_from_wire(r, arena))

\* Response::to_wire without the signature
ChallengeResponse_to_wire_NoSignature(self, w) ==
    ChallengeResponseTbs_to_wire(self.tbs, w)

ChallengeResponse_then_signature(self, tbs) ==
    IF tbs.res # "Ok" THEN tbs
    ELSE EncOk(write_bytes(tbs.bytes, self.signature))

ChallengeResponse_to_wire(self, w) ==
    ChallengeResponse_then_signature(self, ChallengeResponseTbs_to_wire(self.tbs, w))

(***************************************************************************)
(* protocol::cerberus::firmware_version                                    *)
(***************************************************************************)
FirmwareVersionRequest(index) == [index |-> index]

FirmwareVersionRequest_of(st) ==
    IF st.ok THEN DecOk(FirmwareVersionRequest(st.out[1]), st.r, st.a)
    ELSE DecErr(st.err, st.r, st.a)

FirmwareVersionRequest_from_wire(r, arena) ==
    FirmwareVersionRequest_of(ThenReadLe(Start(r, arena), 1))

FirmwareVersionRequest_to_wire(self, w) == EncOk(write_le(w, self.index, 1))

FirmwareVersionResponse(version) == [version |-> version]

FirmwareVersionResponse_of(st) ==
    IF st.ok THEN DecOk(FirmwareVersionResponse(st.out[2]), st.r, st.a)
    ELSE DecErr(st.err, st.r, st.a)

FirmwareVersionResponse_from_wire(r, arena) ==
    FirmwareVersionResponse_of(
        ThenReadBytes(ThenAlloc(Start(r, arena), NonceLen), NonceLen))

FirmwareVersionResponse_to_wire(self, w) == EncOk(write_bytes(w, self.version))

(***************************************************************************)
(* The codec by message type.                                              *)
(***************************************************************************)
ErrorKinds == {"ErrorChallenge", "ErrorNoSpecific"}

MessageKinds == {"ChallengeRequest", "ChallengeResponse",
                 "FirmwareVersionRequest", "FirmwareVersionResponse"}

Kinds == MessageKinds \cup ErrorKinds
             \cup {"ChallengeResponseTbs", "RawError", "Ack"}

ErrorType(k) ==
    IF k = "ErrorChallenge" THEN "ChallengeError" ELSE "NoSpecificError"

from_wire(k, r, a) ==
    CASE k = "ChallengeRequest" -> ChallengeRequest_from_wire(r, a)
      [] k = "ChallengeResponse" -> ChallengeResponse_from_wire(r, a)
      [] k = "ChallengeResponseTbs" -> ChallengeResponseTbs_from_wire(r, a)
      [] k = "FirmwareVersionRequest" -> FirmwareVersionRequest_from_wire(r, a)
      [] k = "FirmwareVersionResponse" -> FirmwareVersionResponse_from_wire(r, a)
      [] k = "RawError" -> RawError_from_wire(r, a)
      [] k = "Ack" -> Ack_from_wire(r, a)
      [] k \in ErrorKinds -> Error_from_wire(ErrorType(k), r, a)

to_wire(k, v, w) ==
    CASE k = "ChallengeRequest" -> ChallengeRequest_to_wire(v, w)
      [] k = "ChallengeResponse" -> ChallengeResponse_to_wire(v, w)
      [] k = "ChallengeResponseTbs" -> ChallengeResponseTbs_to_wire(v, w)
      [] k = "FirmwareVersionRequest" -> FirmwareVersionRequest_to_wire(v, w)
      [] k = "FirmwareVersionResponse" -> FirmwareVersionResponse_to_wire(v, w)
      [] k = "RawError" -> RawError_to_wire(v, w)
      [] k = "Ack" -> Ack_to_wire(w)
      [] k \in ErrorKinds -> Error_to_wire(ErrorType(k), v, w)

(***************************************************************************)
(* The inputs that are tried.                                              *)
(***************************************************************************)
NonceSamples == {Fill(NonceLen, 119), Fill(NonceLen, 221), Ramp(NonceLen, 0)}

ShortLens == 0..MaxShortLen
PmrLens == ShortLens \cup ((U8Count - 1)..(U8Count - 1 + MaxOverLen))
PmrSamples == {Ramp(n, 111) : n \in PmrLens} \cup {<<112, 109, 114, 48>>}
SigSamples == {Ramp(n, 100) : n \in ShortLens} \cup {<<101, 99, 100, 115, 97>>}
TrailSamples == {Fill(n, 9) : n \in 0..MaxTrail}

PayloadSamples ==
    {<<a, b, c, d>> : a \in ByteSamples, b \in {0, 1, U8Count - 1},
                      c \in {0, 1}, d \in {0, 1}}
RawSamples == {Raw(c, d) : c \in ByteSamples, d \in PayloadSamples}

GenericTags == {"Busy", "ResourceLimit", "Malformed", "OutOfRange", "Internal"}

ErrorValues(E) ==
    {Generic(t) : t \in GenericTags}
        \cup {Specific(x) : x \in SpecificValues(E)}
        \cup {Unspecified(d) : d \in PayloadSamples}
        \cup {Unknown(r) : r \in RawSamples}

TbsSamples ==
    {ChallengeResponseTbs(s, 255, 5, 7, n, 10, p) :
        s \in {0, 1}, n \in NonceSamples, p \in PmrSamples}

Values(k) ==
    CASE k = "ChallengeRequest" ->
            {ChallengeRequest(s, n) : s \in ByteSamples, n \in NonceSamples}
      [] k = "ChallengeResponseTbs" -> TbsSamples
      [] k = "ChallengeResponse" ->
            {ChallengeResponse(t, g) : t \in TbsSamples, g \in SigSamples}
      [] k = "FirmwareVersionRequest" ->
            {FirmwareVersionRequest(i) : i \in ByteSamples}
      [] k = "FirmwareVersionResponse" ->
            {FirmwareVersionResponse(v) : v \in NonceSamples}
      [] k = "RawError" -> RawSamples
      [] k = "Ack" -> {AckValue}
      [] k \in ErrorKinds -> ErrorValues(ErrorType(k))

\* byte strings handed to a decoder as they are, well-formed or not
TbsBytes ==
    {<<s, 255, 5, 7, r1, r2>> \o n \o <<10, l>> \o Ramp(t, 111) :
        s \in {0, 1}, r1 \in {0, 1}, r2 \in {0, U8Count - 1},
        n \in {Ramp(NonceLen, 0)}, l \in ShortLens \cup {U8Count - 1},
        t \in 0..(MaxShortLen + 2) \cup ((U8Count - 1)..(U8Count + 1))}

Inputs(k) ==
    CASE k = "ChallengeRequest" ->
            {<<s, r>> \o n \o t : s \in {0, 1}, r \in {0, 1, U8Count - 1},
                                  n \in NonceSamples, t \in TrailSamples}
      [] k \in {"ChallengeResponseTbs", "ChallengeResponse"} -> TbsBytes
      [] k = "FirmwareVersionRequest" ->
            {<<i>> \o t : i \in ByteSamples, t \in TrailSamples}
      [] k = "FirmwareVersionResponse" ->
            {v \o t : v \in NonceSamples, t \in TrailSamples}
      [] k \in ErrorKinds \cup {"RawError", "Ack"} ->
            {<<r.code>> \o r.data \o t : r \in RawSamples, t \in TrailSamples}

(***************************************************************************)
(* State.                                                                  *)
(***************************************************************************)
VARIABLES
    kind,       \* the message type of this run
    value,      \* the value handed to to_wire ("none": the run starts from bytes)
    buf,        \* the bytes to_wire wrote
    wres,       \* what to_wire returned
    iovec,      \* the spans as_iovec_with handed to its callback
    input,      \* the bytes handed to from_wire
    cut,        \* "full": input is buf, "prefix": a strict prefix, "raw": given
    decoded,    \* what from_wire returned, and the bytes it left unread
    reenc,      \* what to_wire of the decoded value returned and wrote
    arena,      \* the arena handed to from_wire
    failure,    \* the capability failure value was converted from, if any
    pc,
    rd,         \* a byte-slice reader
    rdArena,    \* the arena handed to its read_direct
    cp,         \* a reader over the same bytes whose read_direct always copies
    cpArena,    \* the arena handed to that reader's read_direct
    starved,    \* an allocation of the always-copy reader has failed
    last,       \* the last read: its arguments, the reader before, the results
    protocol,   \* opts.protocol
    keypair,    \* opts.alias_keypair: "absent", or whether it parses
    chain,      \* whether opts.cert_chain parses
    bind,       \* whether the host port can be bound
    spc,        \* where serve is
    exit,       \* "running", or how the process ended
    stdout,     \* the lines serve has printed
    srvArena,   \* the arena of the serve loop
    started,    \* calls of process_request begun
    returned,   \* calls of process_request returned
    resets,     \* calls of arena.reset()
    used,       \* bytes the request being processed has been given
    allocs,     \* allocations the request being processed has asked for
    lastAlloc,  \* the last allocation asked of the arena
    starvedReqs,\* the requests that were refused an allocation
    lastResult, \* what the last call of process_request returned
    spawnPc,    \* where Virtual::spawn is: "waiting" in its loop, "returned"
    readPos,    \* lines of the child's stdout spawn has read
    eofReads,   \* reads of spawn that found the child's stdout closed
    virtual     \* the Virtual spawn returned

codecVars ==
    <<kind, value, buf, wres, iovec, input, cut, decoded, reenc, arena,
      failure, pc>>
readVars == <<rd, rdArena, cp, cpArena, starved, last>>
serveVars ==
    <<protocol, keypair, chain, bind, spc, exit, stdout, srvArena, started,
      returned, resets, used, allocs, lastAlloc, starvedReqs, lastResult>>
spawnVars == <<spawnPc, readPos, eofReads, virtual>>
vars == <<codecVars, readVars, serveVars, spawnVars>>

NoDecoded == [ok |-> FALSE, err |-> "", val |-> "none", rest |-> <<>>]
NoEncoded == [res |-> "none", bytes |-> <<>>]
NoFailure == [source |-> "none", detail |-> 0]
NoResult ==
    [ok |-> FALSE, err |-> "", bytes |-> <<>>, val |-> 0, direct |-> FALSE]
NoRead ==
    [op |-> "none", n |-> 0, align |-> 1, before |-> Reader(<<>>, 0),
     arenaBefore |-> NewArena(0), cpArenaBefore |-> NewArena(0),
     res |-> NoResult, ref |-> NoResult]

NoAlloc == [req |-> 0, n |-> 0, ok |-> FALSE, usedBefore |-> 0]

NoVirtual == [port |-> -1]

\* Virtual::spawn has started the child and reads its stdout
SpawnWaiting ==
    /\ spawnPc = "waiting"
    /\ readPos = 0
    /\ eofReads = 0
    /\ virtual = NoVirtual

\* no child has been spawned
SpawnIdle ==
    /\ spawnPc = "idle"
    /\ readPos = 0
    /\ eofReads = 0
    /\ virtual = NoVirtual

\* serve is not running
ServeIdle ==
    /\ protocol = "Cerberus"
    /\ keypair = "absent"
    /\ chain = "ok"
    /\ bind = "ok"
    /\ spc = "idle"
    /\ exit = "running"
    /\ stdout = <<>>
    /\ srvArena = NewArena(0)
    /\ started = 0
    /\ returned = 0
    /\ resets = 0
    /\ used = 0
    /\ allocs = 0
    /\ lastAlloc = NoAlloc
    /\ starvedReqs = {}
    /\ lastResult = "none"
    /\ SpawnIdle

\* no reader under test: the state of the reads while messages are coded
ReadIdle ==
    /\ rd = Reader(<<>>, 0)
    /\ rdArena = NewArena(0)
    /\ cp = Reader(<<>>, 0)
    /\ cpArena = NewArena(0)
    /\ starved = FALSE
    /\ last = NoRead

Init ==
    /\ kind \in Kinds
    /\ \/ /\ pc = "value"
          /\ value \in Values(kind)
          /\ input = <<>>
          /\ cut = "none"
          /\ failure = NoFailure
       \/ /\ pc = "input"
          /\ value = "none"
          /\ input \in Inputs(kind)
          /\ cut = "raw"
          /\ failure = NoFailure
       \/ /\ pc = "failure"
          /\ kind \in ErrorKinds
          /\ value = "none"
          /\ input = <<>>
          /\ cut = "none"
          /\ failure \in [source : FailureSources, detail : 0..MaxDetail]
    /\ buf = <<>>
    /\ wres = "none"
    /\ iovec = <<>>
    /\ decoded = NoDecoded
    /\ reenc = NoEncoded
    /\ arena = NewArena(ArenaSize)
    /\ ReadIdle
    /\ ServeIdle

\* `?` on a failed capability call: the failure becomes a protocol error
Convert ==
    /\ pc = "failure"
    /\ value' = Error_from(failure.source, failure.detail)
    /\ pc' = "value"
    /\ UNCHANGED <<kind, buf, wres, iovec, input, cut, decoded, reenc, arena,
                   failure, readVars, serveVars, spawnVars>>

\* to_wire(value) into an empty writer
ToWire ==
    /\ pc = "value"
    /\ LET e == to_wire(kind, value, <<>>)
       IN  /\ buf' = e.bytes
           /\ wres' = e.res
    /\ pc' = "encoded"
    /\ UNCHANGED <<kind, value, iovec, input, cut, decoded, reenc, arena>>
    /\ UNCHANGED <<failure, readVars, serveVars, spawnVars>>

\* the signer's view of a to-be-signed block
AsIovecWith ==
    /\ kind = "ChallengeResponseTbs"
    /\ pc \in {"value", "encoded"}
    /\ iovec = <<>>
    /\ iovec' = as_iovec_with(value)
    /\ UNCHANGED <<kind, value, buf, wres, input, cut, decoded, reenc, arena, pc>>
    /\ UNCHANGED <<failure, readVars, serveVars, spawnVars>>

\* the whole encoded message reaches the decoder
Deliver ==
    /\ pc = "encoded"
    /\ wres = "Ok"
    /\ input' = buf
    /\ cut' = "full"
    /\ pc' = "input"
    /\ UNCHANGED <<kind, value, buf, wres, iovec, decoded, reenc, arena>>
    /\ UNCHANGED <<failure, readVars, serveVars, spawnVars>>

\* only the first n bytes of the encoded message reach the decoder
Truncate(n) ==
    /\ pc = "encoded"
    /\ wres = "Ok"
    /\ n < Len(buf)
    /\ input' = SubSeq(buf, 1, n)
    /\ cut' = "prefix"
    /\ pc' = "input"
    /\ UNCHANGED <<kind, value, buf, wres, iovec, decoded, reenc, arena>>
    /\ UNCHANGED <<failure, readVars, serveVars, spawnVars>>

\* from_wire on a reader over input, placed at address a
FromWire(a) ==
    /\ pc = "input"
    /\ LET d == from_wire(kind, Reader(input, a), arena)
       IN  /\ decoded' = [ok |-> d.ok, err |-> d.err, val |-> d.val,
                          rest |-> d.r.data]
           /\ arena' = d.a
    /\ pc' = "decoded"
    /\ UNCHANGED <<kind, value, buf, wres, iovec, input, cut, reenc>>
    /\ UNCHANGED <<failure, readVars, serveVars, spawnVars>>

\* to_wire of the decoded value into an empty writer
ReEncode ==
    /\ pc = "decoded"
    /\ decoded.ok
    /\ reenc' = to_wire(kind, decoded.val, <<>>)
    /\ pc' = "done"
    /\ UNCHANGED <<kind, value, buf, wres, iovec, input, cut, decoded, arena>>
    /\ UNCHANGED <<failure, readVars, serveVars, spawnVars>>

Next ==
    \/ Convert
    \/ ToWire
    \/ AsIovecWith
    \/ Deliver
    \/ \E n \in 0..(Len(buf) - 1) : Truncate(n)
    \/ \E a \in 0..MaxAddr : FromWire(a)
    \/ ReEncode

Spec == Init /\ [][Next]_vars

(***************************************************************************)
(* Reads on a byte-slice reader, next to the same reads on a reader over   *)
(* the same bytes that keeps the provided (always-copy) read_direct.       *)
(***************************************************************************)
\* b"Hello!", the buffer of test::read_bytes
HelloBytes == <<72, 101, 108, 108, 111, 33>>

ReadInputs == {HelloBytes, Ramp(MaxReadLen, 0)}

\* widths of the integers read_le reads: u8, u16, u32
LeWidths == {1, 2, 4}

\* alignments of the layouts asked of read_direct
Aligns == {1, 2, 4}

\* no message is coded while the reads are exercised
CodecIdle ==
    /\ kind = "RawError"
    /\ value = "none"
    /\ buf = <<>>
    /\ wres = "none"
    /\ iovec = <<>>
    /\ input = <<>>
    /\ cut = "none"
    /\ decoded = NoDecoded
    /\ reenc = NoEncoded
    /\ arena = NewArena(ArenaSize)
    /\ failure = NoFailure
    /\ pc = "idle"

ReadInit ==
    /\ CodecIdle
    /\ ServeIdle
    /\ \E bytes \in ReadInputs, a \in 0..MaxAddr :
          /\ rd = Reader(bytes, a)
          /\ cp = Reader(bytes, a)
    /\ \E n \in 0..MaxReadArena :
          /\ rdArena = NewArena(n)
          /\ cpArena = NewArena(n)
    /\ starved = FALSE
    /\ last = NoRead

BytesResult(b) ==
    [ok |-> b.ok, err |-> b.err, bytes |-> b.bytes, val |-> 0,
     direct |-> FALSE]
IntResult(x) ==
    [ok |-> x.ok, err |-> x.err, bytes |-> <<>>, val |-> x.val,
     direct |-> FALSE]
DirectResult(x) ==
    [ok |-> x.ok, err |-> x.err, bytes |-> x.bytes, val |-> 0,
     direct |-> x.direct]

Did(op, n, align, res, ref) ==
    [op |-> op, n |-> n, align |-> align, before |-> rd,
     arenaBefore |-> rdArena, cpArenaBefore |-> cpArena,
     res |-> res, ref |-> ref]

\* r.read_bytes(&mut [0; n])
ReadBytes(n) ==
    /\ rd' = read_bytes(rd, n).r
    /\ cp' = read_bytes(cp, n).r
    /\ last' = Did("read_bytes", n, 1, BytesResult(read_bytes(rd, n)),
                   BytesResult(read_bytes(cp, n)))
    /\ UNCHANGED <<codecVars, serveVars, spawnVars, rdArena, cpArena,
                   starved>>

\* r.read_le::<uW>(), W = 8 * w
ReadLe(w) ==
    /\ rd' = read_le(rd, w).r
    /\ cp' = read_le(cp, w).r
    /\ last' = Did("read_le", w, 1, IntResult(read_le(rd, w)),
                   IntResult(read_le(cp, w)))
    /\ UNCHANGED <<codecVars, serveVars, spawnVars, rdArena, cpArena,
                   starved>>

\* r.read_direct(arena, Layout::from_size_align(size, align))
ReadDirect(size, align) ==
    /\ rd' = read_direct(rd, rdArena, size, align).r
    /\ rdArena' = read_direct(rd, rdArena, size, align).a
    /\ cp' = ReadZero_read_direct(cp, cpArena, size, align).r
    /\ cpArena' = ReadZero_read_direct(cp, cpArena, size, align).a
    /\ starved' = (starved \/ ~alloc_raw(cpArena, size, align).ok)
    /\ last' = Did("read_direct", size, align,
                   DirectResult(read_direct(rd, rdArena, size, align)),
                   DirectResult(ReadZero_read_direct(cp, cpArena, size,
                                                     align)))
    /\ UNCHANGED <<codecVars, serveVars, spawnVars>>

ReadNext ==
    \/ \E n \in 0..MaxReadLen : ReadBytes(n)
    \/ \E w \in LeWidths : ReadLe(w)
    \/ \E size \in 0..MaxReadLen, align \in Aligns : ReadDirect(size, align)

ReadSpec == ReadInit /\ [][ReadNext]_vars

(***************************************************************************)
(* e2e support: serve(opts), from its configuration to its request loop.   *)
(***************************************************************************)
\* BumpArena::new(vec![0; 1024])
ServeArenaSize == 1024

\* BumpArena::reset: everything handed out is reclaimed
reset(a) == [a EXCEPT !.cursor = 0]

Protocols == {"Cerberus", "Spdm"}

\* sizes a request asks of the arena
AllocSizes == {1, ServeArenaSize \div 2, ServeArenaSize}

ListeningAt(port) == [prefix |-> "listening@", port |-> port]

ServeInit ==
    /\ CodecIdle
    /\ ReadIdle
    /\ protocol \in Protocols
    /\ keypair \in {"absent", "ok", "bad"}
    /\ chain \in {"ok", "bad"}
    /\ bind \in {"ok", "fail"}
    /\ spc = "signer"
    /\ exit = "running"
    /\ stdout = <<>>
    /\ srvArena = NewArena(0)
    /\ started = 0
    /\ returned = 0
    /\ resets = 0
    /\ used = 0
    /\ allocs = 0
    /\ lastAlloc = NoAlloc
    /\ starvedReqs = {}
    /\ lastResult = "none"
    /\ SpawnWaiting

\* std::process::exit(1), or the panic of an unwrap()
Terminate(how) ==
    /\ exit' = how
    /\ spc' = "exited"

\* opts.alias_keypair.as_ref().map(.. from_pkcs8 ..)
ParseKeypair ==
    /\ spc = "signer"
    /\ IF keypair = "bad" THEN Terminate("exit(1)")
       ELSE spc' = "chain" /\ exit' = exit
    /\ UNCHANGED <<codecVars, readVars, spawnVars, protocol, keypair, chain, bind,
                   stdout, srvArena, started, returned, resets, used, allocs,
                   lastAlloc, starvedReqs, lastResult>>

\* a chain that does not parse is parsed all the same
ParseChain_Unchecked ==
    /\ spc = "chain"
    /\ spc' = "bind"
    /\ UNCHANGED <<codecVars, readVars, spawnVars, protocol, keypair, chain, bind, exit,
                   stdout, srvArena, started, returned, resets, used, allocs,
                   lastAlloc, starvedReqs, lastResult>>

\* cert::SimpleChain::<8>::parse(..).unwrap()
ParseChain ==
    /\ spc = "chain"
    /\ IF chain = "bad" THEN Terminate("panic")
       ELSE spc' = "bind" /\ exit' = exit
    /\ UNCHANGED <<codecVars, readVars, spawnVars, protocol, keypair, chain, bind,
                   stdout, srvArena, started, returned, resets, used, allocs,
                   lastAlloc, starvedReqs, lastResult>>

\* TcpHostPort::bind()
Bind ==
    /\ spc = "bind"
    /\ IF bind = "fail" THEN Terminate("exit(1)")
       ELSE spc' = "bound" /\ exit' = exit
    /\ UNCHANGED <<codecVars, readVars, spawnVars, protocol, keypair, chain, bind,
                   stdout, srvArena, started, returned, resets, used, allocs,
                   lastAlloc, starvedReqs, lastResult>>

\* println!("listening@{}", port); BumpArena::new(vec![0; 1024])
Announce(port) ==
    /\ spc = "bound"
    /\ stdout' = Append(stdout, ListeningAt(port))
    /\ srvArena' = NewArena(ServeArenaSize)
    /\ spc' = "loop"
    /\ UNCHANGED <<codecVars, readVars, spawnVars, protocol, keypair, chain, bind, exit,
                   started, returned, resets, used, allocs, lastAlloc,
                   starvedReqs, lastResult>>

\* the loop calls server.process_request / process_spdm_request
BeginRequest ==
    /\ spc = "loop"
    /\ started < MaxRequests
    /\ started' = started + 1
    /\ used' = 0
    /\ allocs' = 0
    /\ spc' = "processing"
    /\ UNCHANGED <<codecVars, readVars, spawnVars, protocol, keypair, chain, bind, exit,
                   stdout, srvArena, returned, resets, lastAlloc,
                   starvedReqs, lastResult>>

\* the request being processed asks the arena for n bytes
RequestAlloc(n) ==
    /\ spc = "processing"
    /\ allocs < MaxAllocs
    /\ allocs' = allocs + 1
    /\ srvArena' = alloc_raw(srvArena, n, 1).a
    /\ lastAlloc' = [req |-> started, n |-> n,
                     ok |-> alloc_raw(srvArena, n, 1).ok, usedBefore |-> used]
    /\ used' = IF alloc_raw(srvArena, n, 1).ok THEN used + n ELSE used
    /\ starvedReqs' = IF alloc_raw(srvArena, n, 1).ok THEN starvedReqs
                      ELSE starvedReqs \cup {started}
    /\ UNCHANGED <<codecVars, readVars, spawnVars, protocol, keypair, chain, bind, spc,
                   exit, stdout, started, returned, resets, lastResult>>

\* an Err of process_request ends the process
ProcessReturn_ExitOnErr(res) ==
    /\ spc = "processing"
    /\ returned' = returned + 1
    /\ lastResult' = res
    /\ IF res = "Err" THEN Terminate("exit(1)")
       ELSE spc' = "returned" /\ exit' = exit
    /\ UNCHANGED <<codecVars, readVars, spawnVars, protocol, keypair, chain, bind,
                   stdout, srvArena, started, resets, used, allocs, lastAlloc,
                   starvedReqs>>

\* process_request returns; `if let Err(e) = .. { log::error!(..) }`
ProcessReturn(res) ==
    /\ spc = "processing"
    /\ returned' = returned + 1
    /\ lastResult' = res
    /\ spc' = "returned"
    /\ UNCHANGED <<codecVars, readVars, spawnVars, protocol, keypair, chain, bind, exit,
                   stdout, srvArena, started, resets, used, allocs, lastAlloc,
                   starvedReqs>>

\* the arena is reset only when the request was processed without error
ArenaReset_OnlyAfterOk ==
    /\ spc = "returned"
    /\ srvArena' = IF lastResult = "Ok" THEN reset(srvArena) ELSE srvArena
    /\ resets' = IF lastResult = "Ok" THEN resets + 1 ELSE resets
    /\ spc' = "loop"
    /\ UNCHANGED <<codecVars, readVars, spawnVars, protocol, keypair, chain, bind, exit,
                   stdout, started, returned, used, allocs, lastAlloc,
                   starvedReqs, lastResult>>

\* arena.reset(), the last statement of the loop body
ArenaReset ==
    /\ spc = "returned"
    /\ srvArena' = reset(srvArena)
    /\ resets' = resets + 1
    /\ spc' = "loop"
    /\ UNCHANGED <<codecVars, readVars, spawnVars, protocol, keypair, chain, bind, exit,
                   stdout, started, returned, used, allocs, lastAlloc,
                   starvedReqs, lastResult>>

ServeNext ==
    \/ ParseKeypair
    \/ ParseChain
    \/ Bind
    \/ \E port \in 0..MaxPort : Announce(port)
    \/ BeginRequest
    \/ \E n \in AllocSizes : RequestAlloc(n)
    \/ \E res \in {"Ok", "Err"} : ProcessReturn(res)
    \/ ArenaReset

ServeSpec == ServeInit /\ [][ServeNext]_vars

(***************************************************************************)
(* e2e support: Virtual::spawn, the parent of a serve process, waiting for *)
(* the line that tells it the child is ready.                              *)
(***************************************************************************)
\* the child has ended, so the write end of its stdout is closed
StdoutClosed == exit # "running"

\* line.trim().strip_prefix("listening@"), then port.parse().unwrap()
strip_prefix(line) ==
    IF line.prefix = "listening@" THEN [some |-> TRUE, port |-> line.port]
    ELSE [some |-> FALSE, port |-> -1]

\* one turn of the loop of spawn: stdout.read_line(&mut line) blocks for a
\* line and reads nothing once the stdout is closed and drained; an empty
\* line is followed by `continue`, a line with the prefix by the return
SpawnReadLine ==
    /\ spawnPc = "waiting"
    /\ IF readPos < Len(stdout)
       THEN /\ readPos' = readPos + 1
            /\ eofReads' = eofReads
            /\ IF strip_prefix(stdout[readPos + 1]).some
               THEN /\ virtual' = [port |-> strip_prefix(stdout[readPos + 1]).port]
                    /\ spawnPc' = "returned"
               ELSE UNCHANGED <<virtual, spawnPc>>
       ELSE /\ StdoutClosed
            /\ eofReads < MaxEofReads
            /\ eofReads' = eofReads + 1
            /\ UNCHANGED <<readPos, virtual, spawnPc>>
    /\ UNCHANGED <<codecVars, readVars, serveVars>>

SpawnNext ==
    \/ ServeNext
    \/ SpawnReadLine

SpawnSpec == ServeInit /\ [][SpawnNext]_vars

(***************************************************************************)
(* Properties.                                                             *)
(***************************************************************************)
Decoded == pc \in {"decoded", "done"}
Encoded == wres # "none"

\* the raw error at the head of input
InputRaw == Raw(input[1], SubSeq(input, 2, 5))

\* the bytes from_wire took from input
Consumed == SubSeq(input, 1, Len(input) - Len(decoded.rest))

InTable(E, c) == \E x \in SpecificValues(E) : to_raw(E, x).val = c

GenericOf(b) ==
    CASE b = 1 -> "ResourceLimit"
      [] b = 2 -> "Malformed"
      [] b = 3 -> "OutOfRange"
      [] b = 4 -> "Internal"

IsGenericPayload(d) == d[1] \in 1..4 /\ SubSeq(d, 2, 4) = <<0, 0, 0>>
IsSpecificShape(d) == d[1] = U8Count - 1 /\ SubSeq(d, 3, 4) = <<0, 0>>

\* C1, for the variants that have an encoding of their own: every Error<E>
\* value e among Busy, ResourceLimit, Malformed, OutOfRange, Internal and
\* Specific(x), encoded with to_wire and decoded from the 5 bytes with
\* from_wire, decodes successfully to a value equal to e.
C1_ErrorRoundTrip ==
    (kind \in ErrorKinds /\ cut = "full" /\ Decoded
         /\ value.tag \in GenericTags \cup {"Specific"})
        => (decoded.ok /\ decoded.val = value)

\* C2: from_wire of a 5-byte (code, payload) follows the error code mapping:
\* (3, zero) is Busy; (4, [b,0,0,0]) with b in 1..4 is ResourceLimit,
\* Malformed, OutOfRange, Internal; (4, [0xFF,c,0,0]) is Specific of the
\* error the command's table maps to c; (4, any payload of another shape) is
\* Unspecified(payload); any other code is Unknown(raw).
C2_ErrorCodeMapping ==
    (kind \in ErrorKinds /\ cut = "raw" /\ Len(input) = 5 /\ Decoded) =>
        LET code == InputRaw.code
            data == InputRaw.data
            E == ErrorType(kind)
        IN  /\ (code = 3 /\ data = <<0, 0, 0, 0>>)
                  => (decoded.ok /\ decoded.val = Generic("Busy"))
            /\ (code = 4 /\ IsGenericPayload(data))
                  => (decoded.ok /\ decoded.val = Generic(GenericOf(data[1])))
            /\ (code = 4 /\ IsSpecificShape(data) /\ InTable(E, data[2]))
                  => (decoded.ok /\ decoded.val = Specific(from_raw(E, data[2]).val))
            /\ (code = 4 /\ SubSeq(data, 2, 4) # <<0, 0, 0>>
                    /\ ~IsSpecificShape(data))
                  => (decoded.ok /\ decoded.val = Unspecified(data))
            /\ (code \notin {3, 4})
                  => (decoded.ok /\ decoded.val = Unknown(InputRaw))

\* C3: for every ChallengeResponseTbs value the concatenation of the four
\* spans of as_iovec_with is byte-for-byte what to_wire writes for it.
C3_IovecIsToWire ==
    (kind = "ChallengeResponseTbs" /\ iovec # <<>> /\ Encoded)
        => (wres = "Ok" /\ Concat(iovec) = buf)

\* C4: for every valid message of the four message types, from_wire of the
\* bytes written by to_wire succeeds, takes all of them and returns an equal
\* value; Challenge request {slot 1, nonce 0x77 x 32} is written as 01 00 and
\* 32 bytes 0x77, FirmwareVersion request {index 5} as the byte 05, which
\* decodes to index 5.
C4_MessageRoundTrip ==
    /\ (kind \in MessageKinds /\ cut = "full" /\ Decoded)
          => (decoded.ok /\ decoded.val = value /\ decoded.rest = <<>>)
    /\ (kind = "ChallengeRequest" /\ Encoded
            /\ value = ChallengeRequest(1, Fill(NonceLen, 119)))
          => (wres = "Ok" /\ buf = <<1, 0>> \o Fill(NonceLen, 119))
    /\ (kind = "FirmwareVersionRequest" /\ Encoded
            /\ value = FirmwareVersionRequest(5))
          => (wres = "Ok" /\ buf = <<5>>)
    /\ (kind = "FirmwareVersionRequest" /\ Decoded /\ input = <<5>>)
          => (decoded.ok /\ decoded.val = FirmwareVersionRequest(5))

C4_Witness ==
    /\ kind = "ChallengeResponse" /\ cut = "full" /\ Decoded /\ decoded.ok
    /\ Len(value.tbs.pmr0) = U8Count - 1
    /\ Len(value.signature) > 0

\* C5 as stated: every strict prefix of a valid encoded message, of any of
\* the decoders, fails to decode with BufferExhausted.
C5_PrefixNeverDecodes ==
    (cut = "prefix" /\ Decoded)
        => (~decoded.ok /\ decoded.err = "BufferExhausted")

\* length of the to-be-signed block of a challenge response
TbsLen(tbs) == 6 + NonceLen + 2 + Len(tbs.pmr0)

\* C5 amended: a strict prefix fails to decode with BufferExhausted and no
\* byte beyond the input is read, for every decoder but the Challenge
\* response, whose signature is the rest of the input: its prefixes shorter
\* than the to-be-signed block fail with BufferExhausted, the longer ones
\* decode to the same block with the signature cut short.
C5_PrefixOutcome ==
    (cut = "prefix" /\ Decoded) =>
        /\ Len(decoded.rest) <= Len(input)
        /\ IF kind = "ChallengeResponse" /\ Len(input) >= TbsLen(value.tbs)
           THEN /\ decoded.ok
                /\ decoded.val.tbs = value.tbs
                /\ decoded.val.signature =
                       SubSeq(value.signature, 1, Len(input) - TbsLen(value.tbs))
           ELSE ~decoded.ok /\ decoded.err = "BufferExhausted"

C5_Witness ==
    /\ kind = "ChallengeResponse" /\ cut = "prefix" /\ Decoded
    /\ Len(input) = TbsLen(value.tbs) - 1
    /\ Len(value.tbs.pmr0) > 0
    /\ ~decoded.ok

\* the (code, payload) pairs of the error code mapping
Recognised(E, raw) ==
    \/ raw.code = 3 /\ raw.data = <<0, 0, 0, 0>>
    \/ raw.code = 4 /\ ~IsSpecificShape(raw.data)
    \/ raw.code = 4 /\ IsSpecificShape(raw.data) /\ InTable(E, raw.data[2])

Rejected(E, d) ==
    \/ SubSeq(d, 2, 4) = <<0, 0, 0>> /\ d[1] \notin 1..4
    \/ IsSpecificShape(d) /\ ~InTable(E, d[2])

C7_EncodingUnique ==
    (kind \in ErrorKinds /\ pc = "encoded") =>
        \A e2 \in ErrorValues(ErrorType(kind)) \ {value} :
            Error_to_wire(ErrorType(kind), e2, <<>>).bytes # buf

\* an Unspecified or Unknown value that carries the encoding of another value
Alias(E, e) ==
    \/ /\ e.tag = "Unspecified"
       /\ \/ IsGenericPayload(e.data)
          \/ IsSpecificShape(e.data) /\ InTable(E, e.data[2])
    \/ /\ e.tag = "Unknown"
       /\ e.raw.code = 4 \/ e.raw = Raw(3, <<0, 0, 0, 0>>)

\* C7 amended: two distinct Error<E> values are written as different byte
\* sequences unless one of them is an Unspecified(d) whose d is the payload
\* of a generic or specific error, or an Unknown(r) whose r has code 4 or
\* is (3, zero).
C7_EncodingUniqueButAliases ==
    (kind \in ErrorKinds /\ pc = "encoded" /\ ~Alias(ErrorType(kind), value)) =>
        \A e2 \in ErrorValues(ErrorType(kind)) \ {value} :
            ~Alias(ErrorType(kind), e2)
                => Error_to_wire(ErrorType(kind), e2, <<>>).bytes # buf

C7_Witness ==
    /\ kind = "ErrorChallenge" /\ pc = "encoded"
    /\ value = Generic("Internal")
    /\ buf = <<4, 4, 0, 0, 0>>

\* input with its reserved bytes set to zero
Normalised(k, bytes) ==
    CASE k = "ChallengeRequest" -> [bytes EXCEPT ![2] = 0]
      [] k = "ChallengeResponse" -> [bytes EXCEPT ![5] = 0, ![6] = 0]
      [] OTHER -> bytes

\* C8: for every byte string a message decoder accepts, to_wire of the
\* decoded value writes the bytes the decoder took, with the reserved bytes
\* (byte 1 of a Challenge request, bytes 4-5 of a Challenge response) as
\* zero: same length, no other byte differs.
C8_ReEncodeIsInput ==
    (kind \in MessageKinds /\ pc = "done") =>
        /\ input = Consumed \o decoded.rest
        /\ reenc.res = "Ok"
        /\ reenc.bytes = Normalised(kind, Consumed)

C8_Witness ==
    /\ kind = "ChallengeResponse" /\ cut = "raw" /\ pc = "done"
    /\ input[5] # 0 /\ input[6] # 0
    /\ Len(decoded.val.tbs.pmr0) = U8Count - 1
    /\ Len(decoded.val.signature) > 0

\* C9: for every 5-byte raw error r that Error<E>::from_wire accepts, to_wire
\* of the decoded value writes exactly the bytes of r; an r with a code
\* other than 4 that is not (3, zero) decodes to Unknown(r) and is written
\* back as r.
C9_RawRoundTrip ==
    (kind \in ErrorKinds /\ cut = "raw" /\ pc = "done") =>
        /\ reenc.res = "Ok"
        /\ reenc.bytes = SubSeq(input, 1, 5)
        /\ (InputRaw.code # 4 /\ InputRaw # Raw(3, <<0, 0, 0, 0>>))
              => decoded.val = Unknown(InputRaw)

C9_Witness ==
    /\ kind = "ErrorNoSpecific" /\ cut = "raw" /\ pc = "done"
    /\ decoded.val.tag = "Unknown"
    /\ InputRaw.code = 3 /\ InputRaw.data # <<0, 0, 0, 0>>

\* C10: to_wire of every Error<E> value returns Ok and writes exactly 5
\* bytes, the code and the payload of one RawError; to_raw fails
\* for no specific error of ChallengeError or NoSpecificError.
C10_EncodingTotal ==
    /\ (kind \in ErrorKinds /\ Encoded) =>
          /\ wres = "Ok"
          /\ Len(buf) = 5
          /\ \A i \in 1..5 : buf[i] \in 0..(U8Count - 1)
          /\ LET raw == RawError_from_wire(Reader(buf, 0), arena)
             IN  raw.ok /\ raw.r.data = <<>>
                    /\ RawError_to_wire(raw.val, <<>>).bytes = buf
    /\ \A E \in SpecificTypes : \A x \in SpecificValues(E) : to_raw(E, x).ok

C10_Witness ==
    /\ kind = "ErrorChallenge" /\ pc = "encoded"
    /\ value = Specific("UnknownChain")
    /\ buf = <<4, U8Count - 1, 0, 0, 0>>

\* C11: Ack is written as 00 00 00 00 00; a raw error decodes as Ack if and
\* only if its code is 0 and its four payload bytes are 0, and every other
\* raw error fails to decode as Ack with OutOfRange.
C11_AckIsZero ==
    /\ (kind = "Ack" /\ Encoded) => (wres = "Ok" /\ buf = <<0, 0, 0, 0, 0>>)
    /\ (kind = "Ack" /\ cut = "raw" /\ Len(input) >= 5 /\ Decoded) =>
          /\ decoded.ok <=> InputRaw = Raw(0, <<0, 0, 0, 0>>)
          /\ decoded.ok => decoded.val = AckValue
          /\ ~decoded.ok => decoded.err = "OutOfRange"

C11_Witness ==
    /\ kind = "Ack" /\ cut = "raw" /\ Decoded
    /\ Len(input) >= 5 /\ InputRaw.code = 0 /\ InputRaw.data # <<0, 0, 0, 0>>
    /\ ~decoded.ok

\* number of bytes the format of a successfully decoded message defines
FormatLen(k, v) ==
    CASE k = "ChallengeRequest" -> 34
      [] k = "FirmwareVersionRequest" -> 1
      [] k = "FirmwareVersionResponse" -> 32
      [] k \in ErrorKinds \cup {"RawError", "Ack"} -> 5
      [] k = "ChallengeResponseTbs" -> 40 + Len(v.pmr0)
      [] k = "ChallengeResponse" -> 40 + Len(v.tbs.pmr0) + Len(v.signature)

\* C14: a successful from_wire takes exactly the bytes the format defines
\* and leaves the later ones unread: 34 for a Challenge request, 1 and 32
\* for the FirmwareVersion request and response, 5 for RawError, Ack and
\* Error, 40 + pmr0_len for the to-be-signed block; a Challenge response
\* takes all the input, its signature being the bytes after the block.
C14_ConsumesFormat ==
    (Decoded /\ decoded.ok) =>
        /\ Len(Consumed) = FormatLen(kind, decoded.val)
        /\ input = Consumed \o decoded.rest
        /\ kind = "ChallengeResponseTbs" => Len(decoded.val.pmr0) = input[40]
        /\ kind = "ChallengeResponse" =>
              /\ decoded.rest = <<>>
              /\ Len(decoded.val.tbs.pmr0) = input[40]
              /\ decoded.val.signature =
                     SubSeq(input, 40 + input[40] + 1, Len(input))

C14_Witness ==
    /\ kind = "ChallengeResponseTbs" /\ cut = "raw" /\ Decoded /\ decoded.ok
    /\ Len(decoded.val.pmr0) = U8Count - 1
    /\ Len(decoded.rest) = 2

\* C18: every conversion of a capability failure (csrng, hash, signature,
\* session) yields Internal whatever detail the failure carries, and both
\* Error types write it as 04 04 00 00 00; an arena OutOfMemory yields
\* ResourceLimit, written as 04 01 00 00 00.
C18_FailuresFold ==
    (failure.source # "none" /\ pc # "failure") =>
        /\ failure.source = "OutOfMemory" =>
              /\ value = Generic("ResourceLimit")
              /\ Encoded => (wres = "Ok" /\ buf = <<4, 1, 0, 0, 0>>)
        /\ failure.source # "OutOfMemory" =>
              /\ value = Generic("Internal")
              /\ Encoded => (wres = "Ok" /\ buf = <<4, 4, 0, 0, 0>>)

C18_Witness ==
    /\ failure.source = "sig" /\ failure.detail = MaxDetail
    /\ kind = "ErrorChallenge" /\ Encoded /\ buf = <<4, 4, 0, 0, 0>>

(***************************************************************************)
(* Properties of the reads.                                                *)
(***************************************************************************)
\* the bytes the reader held before the last read, and the next n of them
Before == last.before.data
NextBytes(n) == SubSeq(Before, 1, n)

\* the reader is n bytes further than before the last read
Advanced(n) ==
    /\ rd.data = SubSeq(Before, n + 1, Len(Before))
    /\ rd.addr = last.before.addr + n
    /\ remaining_data(rd) = Len(Before) - n

\* the little-endian value of the first w bytes of b, w being 1, 2 or 4
LittleEndian(b, w) ==
    b[1] + (IF w >= 2 THEN 256 * b[2] ELSE 0)
         + (IF w >= 4 THEN 65536 * b[3] + 16777216 * b[4] ELSE 0)

C12_ReadOutcome ==
    /\ last.op = "read_bytes" =>
          IF last.n <= Len(Before)
          THEN /\ last.res.ok
               /\ last.res.bytes = NextBytes(last.n)
               /\ Advanced(last.n)
          ELSE /\ ~last.res.ok
               /\ last.res.err = "BufferExhausted"
               /\ rd = last.before
    /\ last.op = "read_le" =>
          IF last.n <= Len(Before)
          THEN /\ last.res.ok
               /\ last.res.val = LittleEndian(Before, last.n)
               /\ Advanced(last.n)
          ELSE /\ ~last.res.ok
               /\ last.res.err = "BufferExhausted"
               /\ rd = last.before

C12_NeverGrows == remaining_data(rd') <= remaining_data(rd)

\* C12: read_bytes of n bytes on a byte-slice reader with r bytes left
\* copies the next n bytes in order and leaves r - n when n <= r, and fails
\* with BufferExhausted leaving the reader as it was when n > r; no read
\* ever increases remaining_data; read_le of a w-byte integer is read_bytes
\* of w bytes taken little-endian.
C12_ReadBytes == []C12_ReadOutcome /\ [][C12_NeverGrows]_vars

\* test::read_bytes: after "Hel", read_le::<u16> gives 0x6f6c and leaves 1
C12_Witness ==
    /\ last.op = "read_le" /\ last.n = 2
    /\ Before = <<108, 111, 33>>
    /\ last.res.ok /\ last.res.val = 28524
    /\ remaining_data(rd) = 1

\* the two readers returned the same thing and are at the same place
SameAsCopy ==
    /\ last.res.ok = last.ref.ok
    /\ last.res.err = last.ref.err
    /\ last.res.bytes = last.ref.bytes
    /\ remaining_data(rd) = remaining_data(cp)

NoRoom(a) == ~alloc_raw(a, last.n, last.align).ok

\* C15: a read_direct that needs an allocation the arena cannot satisfy
\* fails with ResourceLimit.
C15_ArenaExhaustionIsResourceLimit ==
    last.op = "read_direct" =>
        /\ (/\ Len(Before) >= last.n
            /\ misalign_of(last.before.addr, last.align) # 0
            /\ NoRoom(last.arenaBefore)) =>
               (~last.res.ok /\ last.res.err = "ResourceLimit")
        /\ NoRoom(last.cpArenaBefore) =>
               (~last.ref.ok /\ last.ref.err = "ResourceLimit")

Aligned == misalign_of(last.before.addr, last.align) = 0

\* the last read_direct returned the next bytes from a fresh, aligned
\* region of the arena
FromArena ==
    /\ last.res.ok /\ ~last.res.direct
    /\ rdArena = alloc_raw(last.arenaBefore, last.n, last.align).a
    /\ misalign_of(rdArena.cursor - last.n, last.align) = 0
    /\ rdArena.cursor <= rdArena.size

\* the last read_direct returned the next bytes as a part of the input
FromInput ==
    /\ last.res.ok /\ last.res.direct
    /\ rdArena = last.arenaBefore

\* C20 as stated: with layout.size() bytes left, read_direct returns a part
\* of the input exactly when the reader is aligned and a slice of the arena
\* otherwise; either way the next layout.size() bytes, the reader advanced.
C20_DirectIffAligned ==
    (last.op = "read_direct" /\ Len(Before) >= last.n) =>
        /\ IF Aligned THEN FromInput ELSE FromArena
        /\ last.res.bytes = NextBytes(last.n)
        /\ Advanced(last.n)

\* C20: with layout.size() bytes left, read_direct returns a part of the
\* input, allocating nothing, exactly when the reader is aligned; when it
\* is not, it returns an aligned slice of the arena if the arena has room
\* for the layout, and otherwise fails leaving the reader and the arena as
\* they were; whenever it succeeds the bytes are the next layout.size()
\* input bytes and the reader has advanced by layout.size().
C20_DirectIffAlignedElseCopy ==
    (last.op = "read_direct" /\ Len(Before) >= last.n) =>
        /\ Aligned => FromInput
        /\ (~Aligned /\ ~NoRoom(last.arenaBefore)) => FromArena
        /\ (~Aligned /\ NoRoom(last.arenaBefore)) =>
              /\ ~last.res.ok
              /\ rd = last.before
              /\ rdArena = last.arenaBefore
        /\ last.res.ok =>
              /\ last.res.bytes = NextBytes(last.n)
              /\ Advanced(last.n)

C20_Witness ==
    /\ last.op = "read_direct" /\ last.align = 2 /\ last.n = 2
    /\ ~Aligned /\ FromArena
    /\ last.res.bytes = NextBytes(2)

(***************************************************************************)
(* Properties of serve.                                                    *)
(***************************************************************************)
InLoop == spc \in {"loop", "processing", "returned"}

C16_LoopGoesOn ==
    /\ InLoop => exit = "running"
    /\ returned > 0 => InLoop
    /\ spc = "returned" => ENABLED ArenaReset
    /\ (spc = "loop" /\ started < MaxRequests) => ENABLED BeginRequest
    /\ started - returned = (IF spc = "processing" THEN 1 ELSE 0)

C16_OneAtATime ==
    /\ started' # started => (returned = started /\ started' = started + 1)
    /\ spc = "returned" => (spc' = "loop" /\ exit' = "running")

\* C16: an Err returned by process_request (or process_spdm_request) never
\* ends the loop of serve: after every return, Ok or Err, the process is
\* still running, the loop goes on to the next request, and a request is
\* begun only when every earlier call has returned.
C16_ErrNeverEndsLoop == []C16_LoopGoesOn /\ [][C16_OneAtATime]_vars

C16_Witness ==
    /\ protocol = "Spdm" /\ lastResult = "Err"
    /\ spc = "processing" /\ started = 2 /\ returned = 1

C17_ResetPerRequest ==
    /\ spc = "processing" =>
          (resets = started - 1 /\ srvArena.size = ServeArenaSize)
    /\ spc = "returned" => resets = returned - 1
    /\ spc = "loop" =>
          (resets = returned /\ srvArena = NewArena(ServeArenaSize))
    /\ (spc = "processing" /\ allocs = 0) =>
          srvArena = NewArena(ServeArenaSize)
    /\ (lastAlloc.req > 0 /\ ~lastAlloc.ok) =>
          lastAlloc.usedBefore + lastAlloc.n > ServeArenaSize

C17_ResetOnlyBetween ==
    /\ spc = "processing" => resets' = resets
    /\ resets' # resets => (spc = "returned" /\ resets' = resets + 1)
    /\ started' # started => srvArena = NewArena(ServeArenaSize)

\* C17: the loop of serve resets the arena exactly once after every call
\* of process_request, Ok or Err, never during one, and before the next
\* request: every request starts with the whole arena free, and is refused
\* an allocation only for what it has itself been given.
C17_ArenaResetEachRequest ==
    []C17_ResetPerRequest /\ [][C17_ResetOnlyBetween]_vars

C17_Witness ==
    /\ spc = "processing" /\ started = 2 /\ 1 \in starvedReqs
    /\ lastResult = "Err"
    /\ lastAlloc = [req |-> 2, n |-> ServeArenaSize, ok |-> TRUE,
                    usedBefore |-> 0]

ConfigFails == keypair = "bad" \/ chain = "bad" \/ bind = "fail"

\* C19: a configuration that fails (alias key pair or certificate chain
\* that does not parse, port that cannot be bound) ends the process with
\* nothing printed and no request processed; the loop is entered only when
\* every configuration step succeeded, and the process never ends once the
\* loop is entered.
C19_ConfigFailureIsFatal ==
    /\ ConfigFails =>
          /\ stdout = <<>> /\ started = 0 /\ ~InLoop
          /\ spc \in {"signer", "chain", "bind", "exited"}
          /\ spc # "exited" =>
                ENABLED (ParseKeypair \/ ParseChain \/ Bind)
    /\ exit # "running" =>
          (ConfigFails /\ spc = "exited" /\ stdout = <<>> /\ started = 0)
    /\ InLoop =>
          (~ConfigFails /\ exit = "running" /\ Len(stdout) = 1
              /\ stdout[1].prefix = "listening@")

C19_Witness ==
    /\ keypair = "ok" /\ chain = "bad" /\ bind = "ok"
    /\ exit = "panic" /\ spc = "exited" /\ stdout = <<>>

(***************************************************************************)
(* Properties of Virtual::spawn.                                           *)
(***************************************************************************)
\* C21: Virtual::spawn terminates whatever the child does: it returns the
\* Virtual with the port of the child's listening@ line once that line is
\* printed, and it is no longer waiting once it has found the child's
\* stdout closed without such a line.
C21_SpawnTerminates ==
    /\ spawnPc = "returned" =>
          (Len(stdout) = 1 /\ virtual.port = stdout[1].port)
    /\ (spc = "loop" /\ readPos < Len(stdout)) => ENABLED SpawnReadLine
    /\ eofReads > 0 => spawnPc # "waiting"

====
